---- MODULE Spec2Model ----
(***************************************************************************)
(* A model of the three storage experiments of simple-rust-ecs:            *)
(*   src/src/main.rs         global HashMap stores keyed by a Uuid         *)
(*   src/src/main copy 2.rs  global 256-slot arrays indexed by a u32 id    *)
(*   src/src/main copy.rs    a per-entity list of type-tagged components   *)
(* The three programs are driven side by side by the same caller script:   *)
(* Entity::new, add_component, the end of an entity's scope, a query with  *)
(* get_components, App::add_system and App::run.                           *)
(*                                                                         *)
(* An entity is named in the model by its handle, the index of the         *)
(* Entity::new call that made it.  Collide and MoveTo carry no fields in   *)
(* the source; the model gives each component a payload from Values so     *)
(* that "which value is stored" can be observed.                           *)
(***************************************************************************)
EXTENDS Integers, Sequences, FiniteSets, TLC

\* ---------------------------------------------------------------- bounds
MaxEntities == 3
MaxAttach == 3
MaxVal == 2
MaxSystems == 3
MaxBursts == 1

\* ------------------------------------------------------ program constants
Capacity == 256
\* A u32 is kept as its two 16-bit halves <<hi, lo>>: 2^32 is beyond the
\* integers the model checker computes with.
HalfModulus == 65536

Types == {"Collide", "MoveTo"}
Values == 1..MaxVal
Uuids == 1..MaxEntities

\* Option<T>: None is the empty sequence, Some(x) the one-element sequence.
None == <<>>
Some(x) == <<x>>
IsSome(o) == o # None
Unwrap(o) == o[1]

Range(s) == {s[i] : i \in DOMAIN s}

VARIABLES
    entities,        \* the caller's Vec<Entity>: handles of the live entities
    id,              \* main.rs Entity.id, per handle
    drop_functions,  \* main.rs Entity.drop_functions, per handle: the type each closure removes
    COLLIDES,        \* main.rs OnceCell<HashMap<Uuid, Collide>>
    MOVE_TOS,        \* main.rs OnceCell<HashMap<Uuid, MoveTo>>
    ID,              \* main copy 2.rs static AtomicU32
    id_arr,          \* main copy 2.rs Entity.id, per handle
    COLLIDES_ARR,    \* main copy 2.rs [Option<Collide>; 256]: the Some slots, by index
    MOVE_TOS_ARR,    \* main copy 2.rs [Option<MoveTo>; 256]: the Some slots, by index
    components,      \* main copy.rs Entity.components, per handle
    systems,         \* App.systems: the query type each wrapped closure captured
    log,             \* the system calls made by the last step, in order
    ran,             \* whether the last step was App::run
    attached,        \* history: per handle and type, the value last passed to add_component
    nattach,         \* history: number of add_component calls
    nburst,          \* history: number of bursts of discarded Entity::new calls
    panicked         \* the programs that have aborted

vars == <<entities, id, drop_functions, COLLIDES, MOVE_TOS, ID, id_arr,
          COLLIDES_ARR, MOVE_TOS_ARR, components, systems, log, ran, attached,
          nattach, nburst, panicked>>

hashVars == <<id, drop_functions, COLLIDES, MOVE_TOS>>
arrVars == <<ID, id_arr, COLLIDES_ARR, MOVE_TOS_ARR>>

\* ------------------------------------------------- HashMap and OnceCell
EmptyMap == [k \in {} |-> 0]
HashMapInsert(m, k, v) == [x \in (DOMAIN m) \cup {k} |-> IF x = k THEN v ELSE m[x]]
HashMapRemove(m, k) == [x \in (DOMAIN m) \ {k} |-> m[x]]
HashMapGet(m, k) == IF k \in DOMAIN m THEN Some(m[k]) ELSE None

OnceCellNew == [init |-> FALSE, map |-> EmptyMap]
get_or_init_always(cell) == [init |-> TRUE, map |-> EmptyMap]
get_or_init(cell) == IF cell.init THEN cell ELSE [init |-> TRUE, map |-> EmptyMap]
\* OnceCell::get_mut: None while the cell is uninitialized.
get_mut(cell) == IF cell.init THEN Some(cell.map) ELSE None

\* The two statics of main.rs as one record, to thread them through a call.
Stores == [Collide |-> COLLIDES, MoveTo |-> MOVE_TOS]

\* Mutant of insert: an occupied key keeps its value (entry().or_insert).
insert_missing(st, ty, k, v) == st
insert_fresh_map(st, ty, k, v) ==
    [st EXCEPT ![ty] = [init |-> TRUE, map |-> HashMapInsert(EmptyMap, k, v)]]
insert_keep_first(st, ty, k, v) ==
    LET cell == get_or_init(st[ty])
    IN  IF k \in DOMAIN cell.map THEN [st EXCEPT ![ty] = cell]
        ELSE [st EXCEPT ![ty] = [cell EXCEPT !.map = HashMapInsert(cell.map, k, v)]]

\* Component::insert (main.rs): get_or_init, then get_mut().unwrap().insert(id, self).
insert(st, ty, k, v) ==
    LET cell == get_or_init(st[ty])
    IN  [st EXCEPT ![ty] = [cell EXCEPT !.map = HashMapInsert(Unwrap(get_mut(cell)), k, v)]]

\* Component::drop (main.rs): get_mut().unwrap().remove(&id); the unwrap panics
\* on an uninitialized cell.
DropPanics(st, ty) == get_mut(st[ty]) = None
drop_clears(st, ty, k) ==
    IF DropPanics(st, ty) THEN st
    ELSE [st EXCEPT ![ty] = [init |-> TRUE, map |-> EmptyMap]]
drop(st, ty, k) ==
    IF DropPanics(st, ty) THEN st
    ELSE [st EXCEPT ![ty].map = HashMapRemove(Unwrap(get_mut(st[ty])), k)]

\* ------------------------------------------------------------ queries
\* A query type: &T or &mut T, or a tuple (T0, TB) of two query types.
Ref(ty, m) == [kind |-> "ref", ty |-> ty, mut |-> m]
Pair(a, b) == [kind |-> "pair", a |-> a, b |-> b]
Leaves == {Ref(ty, m) : ty \in Types, m \in BOOLEAN}
SharedLeaves == {Ref(ty, FALSE) : ty \in Types}
Pairs == {Pair(a, b) : a \in Leaves, b \in Leaves}
Nested == {Pair(a, Pair(b, c)) : a \in SharedLeaves, b \in SharedLeaves, c \in SharedLeaves}
Queries == Leaves \cup Pairs \cup Nested
\* The query types the caller script runs as a step: every leaf, and the
\* joins of two shared leaves (a call's only effect on the state is which
\* cells it initializes, and the access mode does not change that).
CallerQueries == Leaves \cup {Pair(a, b) : a \in SharedLeaves, b \in SharedLeaves}

\* A reference handed out by filter: the store, the key in it, the access mode
\* and the value it points at.
Borrow(ty, k, m, v) == [store |-> ty, key |-> k, mut |-> m, val |-> v]

\* Mutant of filter: a join that stops after its first sub-query.
RECURSIVE filter_first_only(_, _, _)
filter_first_only(q, e, st) ==
    IF q.kind = "ref"
    THEN LET cell == get_or_init(st[q.ty])
             got == HashMapGet(cell.map, id[e])
         IN  [res |-> IF IsSome(got)
                      THEN Some(Borrow(q.ty, id[e], q.mut, Unwrap(got)))
                      ELSE None,
              st |-> [st EXCEPT ![q.ty] = cell]]
    ELSE LET a == filter_first_only(q.a, e, st)
         IN  IF a.res = None THEN [res |-> None, st |-> a.st]
             ELSE [res |-> Some(<<Unwrap(a.res), Unwrap(a.res)>>), st |-> a.st]

\* Mutant of filter: a join that evaluates both sub-queries before it looks
\* at the first result.
RECURSIVE filter_eager(_, _, _)
filter_eager(q, e, st) ==
    IF q.kind = "ref"
    THEN LET cell == get_or_init(st[q.ty])
             got == HashMapGet(cell.map, id[e])
         IN  [res |-> IF IsSome(got)
                      THEN Some(Borrow(q.ty, id[e], q.mut, Unwrap(got)))
                      ELSE None,
              st |-> [st EXCEPT ![q.ty] = cell]]
    ELSE LET a == filter_eager(q.a, e, st)
             b == filter_eager(q.b, e, a.st)
         IN  IF a.res = None \/ b.res = None THEN [res |-> None, st |-> b.st]
             ELSE [res |-> Some(<<Unwrap(a.res), Unwrap(b.res)>>), st |-> b.st]

\* Mutant of filter: a mutable leaf takes the value out of the store
\* (HashMap::remove) instead of borrowing it.
RECURSIVE filter_take(_, _, _)
filter_take(q, e, st) ==
    IF q.kind = "ref"
    THEN LET cell == get_or_init(st[q.ty])
             got == HashMapGet(cell.map, id[e])
         IN  [res |-> IF IsSome(got)
                      THEN Some(Borrow(q.ty, id[e], q.mut, Unwrap(got)))
                      ELSE None,
              st |-> [st EXCEPT ![q.ty] =
                         IF q.mut THEN [cell EXCEPT !.map = HashMapRemove(cell.map, id[e])]
                         ELSE cell]]
    ELSE LET a == filter_take(q.a, e, st)
         IN  IF a.res = None THEN [res |-> None, st |-> a.st]
             ELSE LET b == filter_take(q.b, e, a.st)
                  IN  IF b.res = None THEN [res |-> None, st |-> b.st]
                      ELSE [res |-> Some(<<Unwrap(a.res), Unwrap(b.res)>>), st |-> b.st]

\* ComponentCombination::filter (main.rs).  Returns the Option and the stores
\* as the call leaves them (a leaf's get_or_init may initialize its cell).
RECURSIVE filter(_, _, _)
filter(q, e, st) ==
    IF q.kind = "ref"
    THEN LET cell == get_or_init(st[q.ty])
             got == HashMapGet(cell.map, id[e])
         IN  [res |-> IF IsSome(got)
                      THEN Some(Borrow(q.ty, id[e], q.mut, Unwrap(got)))
                      ELSE None,
              st |-> [st EXCEPT ![q.ty] = cell]]
    ELSE LET a == filter(q.a, e, st)
         IN  IF a.res = None THEN [res |-> None, st |-> a.st]
             ELSE LET b == filter(q.b, e, a.st)
                  IN  IF b.res = None THEN [res |-> None, st |-> b.st]
                      ELSE [res |-> Some(<<Unwrap(a.res), Unwrap(b.res)>>), st |-> b.st]

\* Mutant of get_components_from: each result is put in front of the earlier ones.
RECURSIVE get_components_prepend(_, _, _, _)
get_components_prepend(q, es, st, acc) ==
    IF es = <<>> THEN [out |-> acc, st |-> st]
    ELSE LET r == filter(q, Head(es), st)
         IN  get_components_prepend(q, Tail(es), r.st,
                                    IF IsSome(r.res) THEN <<Unwrap(r.res)>> \o acc ELSE acc)

\* get_components (main.rs): filter over the entities in order, pushing each Some.
RECURSIVE get_components_from(_, _, _, _)
get_components_from(q, es, st, acc) ==
    IF es = <<>> THEN [out |-> acc, st |-> st]
    ELSE LET r == filter(q, Head(es), st)
         IN  get_components_from(q, Tail(es), r.st,
                                 IF IsSome(r.res) THEN Append(acc, Unwrap(r.res)) ELSE acc)
get_components(q, es, st) == get_components_from(q, es, st, <<>>)

\* u32 arithmetic on the halves.
U32(hi, lo) == <<hi, lo>>
U32Add(a, b) ==
    LET lo == a[2] + b[2]
        carry == IF lo >= HalfModulus THEN 1 ELSE 0
    IN  U32((a[1] + b[1] + carry) % HalfModulus, lo % HalfModulus)
\* `id as usize` used as an index of a 256-slot array: in range iff below 256.
InRange(i) == i[1] = 0 /\ i[2] < Capacity

\* filter and get_components of main copy 2.rs: slice get / get_mut, then
\* and_then(as_ref / as_mut).  Nothing is written.
ArrStore(ty) == IF ty = "Collide" THEN COLLIDES_ARR ELSE MOVE_TOS_ARR
\* An array of Option is kept as the map from the indices of its Some slots
\* to their values; every other index below Capacity holds None.
Slot(arr, n) == IF n \in DOMAIN arr THEN Some(arr[n]) ELSE None
ArrayOfNone == [n \in {} |-> 0]
SliceGet(arr, i) == IF InRange(i) THEN Some(Slot(arr, i[2])) ELSE None
RECURSIVE filter_arr(_, _)
filter_arr(q, e) ==
    IF q.kind = "ref"
    THEN LET slot == SliceGet(ArrStore(q.ty), id_arr[e])
         IN  IF IsSome(slot) /\ IsSome(Unwrap(slot))
             THEN Some(Borrow(q.ty, id_arr[e], q.mut, Unwrap(Unwrap(slot))))
             ELSE None
    ELSE LET a == filter_arr(q.a, e)
         IN  IF a = None THEN None
             ELSE LET b == filter_arr(q.b, e)
                  IN  IF b = None THEN None ELSE Some(<<Unwrap(a), Unwrap(b)>>)

RECURSIVE get_components_arr_from(_, _, _)
get_components_arr_from(q, es, acc) ==
    IF es = <<>> THEN acc
    ELSE LET r == filter_arr(q, Head(es))
         IN  get_components_arr_from(q, Tail(es), IF IsSome(r) THEN Append(acc, Unwrap(r)) ELSE acc)
get_components_arr(q, es) == get_components_arr_from(q, es, <<>>)

\* filter and get_components of main copy.rs: the first element of the
\* entity's list that downcasts to the type.  Only &T is implemented.
RECURSIVE AllShared(_)
AllShared(q) == IF q.kind = "ref" THEN ~q.mut ELSE AllShared(q.a) /\ AllShared(q.b)
ListQueries == {q \in Queries : AllShared(q)}
RECURSIVE downcast_scan(_, _, _, _)
downcast_scan(list, ty, i, e) ==
    IF i > Len(list) THEN None
    ELSE IF list[i].ty = ty THEN Some(Borrow(ty, <<e, i>>, FALSE, list[i].val))
         ELSE downcast_scan(list, ty, i + 1, e)
RECURSIVE filter_list(_, _)
filter_list(q, e) ==
    IF q.kind = "ref" THEN downcast_scan(components[e], q.ty, 1, e)
    ELSE LET a == filter_list(q.a, e)
         IN  IF a = None THEN None
             ELSE LET b == filter_list(q.b, e)
                  IN  IF b = None THEN None ELSE Some(<<Unwrap(a), Unwrap(b)>>)

RECURSIVE get_components_list_from(_, _, _)
get_components_list_from(q, es, acc) ==
    IF es = <<>> THEN acc
    ELSE LET r == filter_list(q, Head(es))
         IN  get_components_list_from(q, Tail(es), IF IsSome(r) THEN Append(acc, Unwrap(r)) ELSE acc)
get_components_list(q, es) == get_components_list_from(q, es, <<>>)

\* ------------------------------------------------------------- Init
Init ==
    /\ entities = <<>>
    /\ id = <<>>
    /\ drop_functions = <<>>
    /\ COLLIDES = OnceCellNew
    /\ MOVE_TOS = OnceCellNew
    /\ ID = U32(0, 0)
    /\ id_arr = <<>>
    /\ COLLIDES_ARR = ArrayOfNone
    /\ MOVE_TOS_ARR = ArrayOfNone
    /\ components = <<>>
    /\ systems = <<>>
    /\ log = <<>>
    /\ ran = FALSE
    /\ attached = <<>>
    /\ nattach = 0
    /\ nburst = 0
    /\ panicked = {}

Running == panicked = {}

\* ------------------------------------------------------------ actions
\* Mutant of new_v4: the id of a destroyed entity may be handed out again.
new_v4_reuse == Uuids \ {id[e] : e \in Range(entities)}

\* Uuid::new_v4 (main.rs:13): a random 122-bit value, modelled as any value no
\* earlier call returned.
new_v4 == Uuids \ Range(id)

\* AtomicU32::fetch_add(1): returns the old value, stores the sum modulo 2^32.
fetch_add(ctr, n) == U32Add(ctr, n)

\* Entity::new in the three programs, and the caller's push of the new entity.
EntityNew(u) ==
    /\ Running
    /\ u \in new_v4
    /\ id' = Append(id, u)
    /\ drop_functions' = Append(drop_functions, <<>>)
    /\ id_arr' = Append(id_arr, ID)
    /\ ID' = fetch_add(ID, U32(0, 1))
    /\ components' = Append(components, <<>>)
    /\ attached' = Append(attached, [t \in Types |-> None])
    /\ entities' = Append(entities, Len(id) + 1)
    /\ log' = <<>>
    /\ ran' = FALSE
    /\ UNCHANGED <<COLLIDES, MOVE_TOS, COLLIDES_ARR, MOVE_TOS_ARR, systems, nattach, nburst, panicked>>

\* Component::insert (main copy 2.rs): COLLIDES[id as usize] = Some(self); the
\* index is bounds-checked and panics at or beyond the array's length.
InsertArrUnchecked(i) == FALSE
InsertArrPanics(i) == ~InRange(i)
insert_arr(arr, i, v) == [n \in (DOMAIN arr) \cup {i[2]} |-> IF n = i[2] THEN v ELSE arr[n]]

\* Entity::add_component in the three programs.
AddComponent(e, ty, v) ==
    /\ Running
    /\ e \in Range(entities)
    /\ LET st == insert(Stores, ty, id[e], v)
       IN  /\ COLLIDES' = st.Collide
           /\ MOVE_TOS' = st.MoveTo
    /\ drop_functions' = [drop_functions EXCEPT ![e] = Append(@, ty)]
    /\ IF InsertArrPanics(id_arr[e])
       THEN /\ panicked' = panicked \cup {"array"}
            /\ UNCHANGED <<COLLIDES_ARR, MOVE_TOS_ARR>>
       ELSE /\ COLLIDES_ARR' = IF ty = "Collide" THEN insert_arr(COLLIDES_ARR, id_arr[e], v) ELSE COLLIDES_ARR
            /\ MOVE_TOS_ARR' = IF ty = "MoveTo" THEN insert_arr(MOVE_TOS_ARR, id_arr[e], v) ELSE MOVE_TOS_ARR
            /\ UNCHANGED panicked
    /\ components' = [components EXCEPT ![e] = Append(@, [ty |-> ty, val |-> v])]
    /\ attached' = [attached EXCEPT ![e][ty] = Some(v)]
    /\ nattach' = nattach + 1
    /\ log' = <<>>
    /\ ran' = FALSE
    /\ UNCHANGED <<entities, id, ID, id_arr, systems, nburst>>

\* impl Drop for Entity (main.rs): drain drop_functions, calling each in order.
RECURSIVE run_drop_functions(_, _, _)
run_drop_functions(fns, k, st) ==
    IF fns = <<>> THEN [st |-> st, panic |-> FALSE]
    ELSE IF DropPanics(st, Head(fns)) THEN [st |-> st, panic |-> TRUE]
         ELSE run_drop_functions(Tail(fns), k, drop(st, Head(fns), k))

RemoveAt(s, i) == SubSeq(s, 1, i - 1) \o SubSeq(s, i + 1, Len(s))

\* The entity at position i of the population goes out of scope.  main.rs runs
\* Drop; main copy 2.rs has no Drop for its Copy entity, so its arrays are left
\* alone; main copy.rs drops the entity's own list.
Destroy(i) ==
    /\ Running
    /\ i \in DOMAIN entities
    /\ LET e == entities[i]
           r == run_drop_functions(drop_functions[e], id[e], Stores)
       IN  /\ COLLIDES' = r.st.Collide
           /\ MOVE_TOS' = r.st.MoveTo
           /\ panicked' = IF r.panic THEN panicked \cup {"hash"} ELSE panicked
           /\ drop_functions' = [drop_functions EXCEPT ![e] = <<>>]
           /\ components' = [components EXCEPT ![e] = <<>>]
    /\ entities' = RemoveAt(entities, i)
    /\ log' = <<>>
    /\ ran' = FALSE
    /\ UNCHANGED <<id, ID, id_arr, COLLIDES_ARR, MOVE_TOS_ARR, systems, attached, nattach, nburst>>

\* A caller's get_components::<Q>(&entities) (main.rs): the result is dropped,
\* the stores the filters initialized stay initialized.
Query(q) ==
    /\ Running
    /\ LET r == get_components(q, entities, Stores)
       IN  /\ COLLIDES' = r.st.Collide
           /\ MOVE_TOS' = r.st.MoveTo
    /\ log' = <<>>
    /\ ran' = FALSE
    /\ UNCHANGED <<entities, id, drop_functions, ID, id_arr, COLLIDES_ARR, MOVE_TOS_ARR,
                   components, systems, attached, nattach, nburst, panicked>>

\* App::add_system: wrap the system with its query type and push it.  Nothing
\* inspects the query type.
SystemQueries ==
    {Ref("Collide", FALSE), Ref("MoveTo", FALSE),
     Pair(Ref("Collide", FALSE), Ref("MoveTo", FALSE)),
     Pair(Ref("Collide", TRUE), Ref("Collide", FALSE))}
add_system(q) ==
    /\ Running
    /\ systems' = Append(systems, q)
    /\ log' = <<>>
    /\ ran' = FALSE
    /\ UNCHANGED <<entities, id, drop_functions, COLLIDES, MOVE_TOS, ID, id_arr,
                   COLLIDES_ARR, MOVE_TOS_ARR, components, attached, nattach, nburst, panicked>>

\* Mutant of run_from: a system whose query matches nothing is not called.
RECURSIVE run_skip_empty(_, _, _, _)
run_skip_empty(k, es, st, calls) ==
    IF k > Len(systems) THEN [calls |-> calls, st |-> st]
    ELSE LET r == get_components(systems[k], es, st)
         IN  run_skip_empty(k + 1, es, r.st,
                            IF r.out = <<>> THEN calls
                            ELSE Append(calls, [system |-> k, components |-> r.out]))

\* App::run: each wrapped system in order; a wrapped system calls
\* get_components for its query type and then the system with the result.
RECURSIVE run_from(_, _, _, _)
run_from(k, es, st, calls) ==
    IF k > Len(systems) THEN [calls |-> calls, st |-> st]
    ELSE LET r == get_components(systems[k], es, st)
         IN  run_from(k + 1, es, r.st, Append(calls, [system |-> k, components |-> r.out]))

run ==
    /\ Running
    /\ LET r == run_from(1, entities, Stores, <<>>)
       IN  /\ log' = r.calls
           /\ ran' = TRUE
           /\ COLLIDES' = r.st.Collide
           /\ MOVE_TOS' = r.st.MoveTo
    /\ UNCHANGED <<entities, id, drop_functions, ID, id_arr, COLLIDES_ARR, MOVE_TOS_ARR,
                   components, systems, attached, nattach, nburst, panicked>>

\* A caller loop of n Entity::new calls whose entities get no component and
\* are discarded at once (main copy 2.rs: n fetch_add(1) on ID).  The Uuids
\* such a loop draws in main.rs are outside the ones the model follows.
BurstSizes == {U32(0, Capacity - 1), U32(HalfModulus - 1, HalfModulus - 1)}
NewMany(n) ==
    /\ Running
    /\ ID' = fetch_add(ID, n)
    /\ nburst' = nburst + 1
    /\ log' = <<>>
    /\ ran' = FALSE
    /\ UNCHANGED <<entities, id, drop_functions, COLLIDES, MOVE_TOS, id_arr, COLLIDES_ARR,
                   MOVE_TOS_ARR, components, systems, attached, nattach, panicked>>

\* The storage programs under any caller script.
Next ==
    \/ \E u \in Uuids : Len(id) < MaxEntities /\ EntityNew(u)
    \/ \E e \in 1..MaxEntities, ty \in Types, v \in Values :
          nattach < MaxAttach /\ AddComponent(e, ty, v)
    \/ \E i \in 1..MaxEntities : Destroy(i)
    \/ \E q \in CallerQueries : Query(q)

Spec == Init /\ [][Next]_vars

\* The scheduler, from the population main builds: vec![new_player(), new_wall()].
InitApp ==
    \E u1 \in Uuids, u2 \in Uuids :
        /\ u1 # u2
        /\ entities = <<1, 2>>
        /\ id = <<u1, u2>>
        /\ drop_functions = << <<"Collide", "MoveTo">>, <<"Collide">> >>
        /\ LET st == insert(insert(insert([Collide |-> OnceCellNew, MoveTo |-> OnceCellNew],
                                          "Collide", u1, 1), "MoveTo", u1, 1), "Collide", u2, 1)
           IN  /\ COLLIDES = st.Collide
               /\ MOVE_TOS = st.MoveTo
        /\ ID = U32(0, 2)
        /\ id_arr = <<U32(0, 0), U32(0, 1)>>
        /\ COLLIDES_ARR = insert_arr(insert_arr(ArrayOfNone, U32(0, 0), 1), U32(0, 1), 1)
        /\ MOVE_TOS_ARR = insert_arr(ArrayOfNone, U32(0, 0), 1)
        /\ components = << <<[ty |-> "Collide", val |-> 1], [ty |-> "MoveTo", val |-> 1]>>,
                           <<[ty |-> "Collide", val |-> 1]>> >>
        /\ systems = <<>>
        /\ log = <<>>
        /\ ran = FALSE
        /\ attached = <<[t \in Types |-> Some(1)], [t \in Types |-> IF t = "Collide" THEN Some(1) ELSE None]>>
        /\ nattach = 3
        /\ nburst = 0
        /\ panicked = {}

NextApp ==
    \/ \E q \in SystemQueries : Len(systems) < MaxSystems /\ add_system(q)
    \/ run
    \/ \E i \in 1..MaxEntities : Destroy(i)
    \/ \E u \in Uuids : Len(id) < MaxEntities /\ EntityNew(u)

SpecApp == InitApp /\ [][NextApp]_vars

\* The counter program when a caller also runs long loops of Entity::new.
\* The Uuid and the payload play no part in it: the script draws the Uuids in
\* order and attaches the payload 1.
NextCounter ==
    \/ Len(id) < MaxEntities /\ EntityNew(Len(id) + 1)
    \/ \E n \in BurstSizes : nburst < MaxBursts /\ NewMany(n)
    \/ \E e \in 1..MaxEntities, ty \in Types :
          nattach < MaxAttach /\ AddComponent(e, ty, 1)
    \/ \E i \in 1..MaxEntities : Destroy(i)

SpecCounter == Init /\ [][NextCounter]_vars

\* The scheduler from either start: the empty program state (no store
\* touched yet) or the population main builds.
InitTick == Init \/ InitApp
SpecTick == InitTick /\ [][NextApp]_vars

\* A caller's direct T::drop(id) (main.rs Component::drop is callable from
\* anywhere in the crate): the store of T loses the entry of id, or the
\* unwrap of get_mut() aborts the program.
ComponentDrop(ty, k) ==
    /\ Running
    /\ LET st == drop(Stores, ty, k)
       IN  /\ COLLIDES' = st.Collide
           /\ MOVE_TOS' = st.MoveTo
    /\ panicked' = IF DropPanics(Stores, ty) THEN panicked \cup {"hash"} ELSE panicked
    /\ log' = <<>>
    /\ ran' = FALSE
    /\ UNCHANGED <<entities, id, drop_functions, ID, id_arr, COLLIDES_ARR, MOVE_TOS_ARR,
                   components, systems, attached, nattach, nburst>>

\* The hash-map stores when a caller also removes by id directly.  The Uuid
\* is drawn in order.
NextStore ==
    \/ Len(id) < MaxEntities /\ EntityNew(Len(id) + 1)
    \/ \E e \in 1..MaxEntities, ty \in Types, v \in Values :
          nattach < MaxAttach /\ AddComponent(e, ty, v)
    \/ \E ty \in Types, k \in Uuids : ComponentDrop(ty, k)
    \/ \E i \in 1..MaxEntities : Destroy(i)

SpecStore == Init /\ [][NextStore]_vars

\* ------------------------------------------------------- claim helpers
Live == Range(entities)
Dead == (DOMAIN id) \ Live
Has(e, ty) == attached[e][ty] # None
\* The component types a query type names, and whether an entity has them all.
RECURSIVE TypesOf(_)
TypesOf(q) == IF q.kind = "ref" THEN {q.ty} ELSE TypesOf(q.a) \cup TypesOf(q.b)
HasAll(e, q) == \A ty \in TypesOf(q) : Has(e, ty)
\* The references of one result of query type q, left to right.
RECURSIVE BorrowsOf(_, _)
BorrowsOf(q, r) == IF q.kind = "ref" THEN <<r>> ELSE BorrowsOf(q.a, r[1]) \o BorrowsOf(q.b, r[2])
\* The attached same-type pairs of a per-entity list: positions i < j of one type.
AttachedTwice(e, ty) ==
    \E i \in DOMAIN components[e], j \in DOMAIN components[e] :
        /\ i < j
        /\ components[e][i].ty = ty
        /\ components[e][j].ty = ty
        /\ components[e][i].val # components[e][j].val
\* The value a single-type filter result points at, as an Option.
ValOf(r) == IF r = None THEN None ELSE Some(Unwrap(r).val)

C2_SecondWinsEverywhere ==
    \A e \in Live, ty \in Types :
        /\ ValOf(filter(Ref(ty, FALSE), e, Stores).res) = attached[e][ty]
        /\ ValOf(filter_arr(Ref(ty, FALSE), e)) = attached[e][ty]
        /\ ValOf(filter_list(Ref(ty, FALSE), e)) = attached[e][ty]
        /\ Len(get_components(Ref(ty, FALSE), <<e>>, Stores).out) <= 1
        /\ Len(get_components_arr(Ref(ty, FALSE), <<e>>)) <= 1
        /\ Len(get_components_list(Ref(ty, FALSE), <<e>>)) <= 1

\* C3: every store holds an entry for an id only if the entity with that id is
\* live and had that type attached (hash-map stores and array stores).
C3_NoOrphans ==
    \A ty \in Types :
        /\ \A k \in DOMAIN Stores[ty].map :
              \E e \in Live : id[e] = k /\ Has(e, ty)
        /\ \A i \in 0..(Capacity - 1) :
              Slot(ArrStore(ty), i) # None => \E e \in Live : id_arr[e] = U32(0, i) /\ Has(e, ty)

\* C4: once an entity is destroyed, no query over the remaining population
\* yields a reference keyed by the destroyed entity's id (hash-map program).
C4_DeadNeverYielded ==
    \A d \in Dead, q \in Queries :
        LET out == get_components(q, entities, Stores).out
        IN  \A n \in DOMAIN out :
                \A b \in Range(BorrowsOf(q, out[n])) : b.key # id[d]

C4_Witness ==
    \E d \in Dead, e \in Live :
        /\ Has(d, "Collide") /\ Has(d, "MoveTo")
        /\ e > d
        /\ Has(e, "Collide")
        /\ Len(get_components(Ref("Collide", FALSE), entities, Stores).out) >= 1

\* C5: a join (A, B), and a nested join (A, (B, C)), yields exactly one result
\* per entity that has every joined type and none for the others, so no more
\* than either side alone (hash-map and list programs).
Count(q) == Cardinality({e \in Live : HasAll(e, q)})
C5_JoinCount ==
    /\ \A q \in Pairs \cup Nested :
          LET out == get_components(q, entities, Stores).out
          IN  /\ Len(out) = Count(q)
              /\ Len(out) <= Len(get_components(q.a, entities, Stores).out)
              /\ Len(out) <= Len(get_components(q.b, entities, Stores).out)
              /\ \A e \in Live : HasAll(e, q) =>
                    Cardinality({n \in DOMAIN out : BorrowsOf(q, out[n])[1].key = id[e]}) = 1
    /\ \A q \in ListQueries :
          q.kind = "pair" =>
              LET out == get_components_list(q, entities)
              IN  /\ Len(out) = Count(q)
                  /\ Len(out) <= Len(get_components_list(q.a, entities))
                  /\ Len(out) <= Len(get_components_list(q.b, entities))
                  /\ \A e \in Live : HasAll(e, q) =>
                        Cardinality({n \in DOMAIN out : BorrowsOf(q, out[n])[1].key[1] = e}) = 1

\* The population of scenario 1: P = {Collide, MoveTo}, W = {Collide}.
C5_Witness ==
    /\ Len(entities) = 2
    /\ Has(entities[1], "Collide") /\ Has(entities[1], "MoveTo")
    /\ Has(entities[2], "Collide") /\ ~Has(entities[2], "MoveTo")
    /\ Len(get_components(Ref("Collide", FALSE), entities, Stores).out) = 2
    /\ Len(get_components(Ref("MoveTo", FALSE), entities, Stores).out) = 1
    /\ Len(get_components(Pair(Ref("Collide", FALSE), Ref("MoveTo", FALSE)), entities, Stores).out) = 1
    /\ Len(get_components_list(Pair(Ref("Collide", FALSE), Ref("MoveTo", FALSE)), entities)) = 1

\* C6: the results of get_components are those of the entities that have every
\* queried type, in the order those entities have in the population.
RECURSIVE MatchingIds(_, _)
MatchingIds(q, es) ==
    IF es = <<>> THEN <<>>
    ELSE (IF HasAll(Head(es), q) THEN <<id[Head(es)]>> ELSE <<>>) \o MatchingIds(q, Tail(es))
FirstKeys(q, out) == [n \in DOMAIN out |-> BorrowsOf(q, out[n])[1].key]
C6_OrderPreserved ==
    \A q \in Queries :
        FirstKeys(q, get_components(q, entities, Stores).out) = MatchingIds(q, entities)

C6_Witness ==
    /\ Len(entities) = 3
    /\ Has(entities[1], "Collide") /\ ~Has(entities[2], "Collide") /\ Has(entities[3], "Collide")
    /\ id[entities[1]] > id[entities[3]]
    /\ Len(get_components(Ref("Collide", FALSE), entities, Stores).out) = 2

\* C7: one App::run calls every registered system exactly once, in registration
\* order, each with the result of its own get_components over the population;
\* a system whose query matches nothing is called with the empty sequence.
C7_RunCallsEverySystem ==
    ran =>
        /\ Len(log) = Len(systems)
        /\ \A k \in DOMAIN log :
              /\ log[k].system = k
              /\ log[k].components = get_components(systems[k], entities, Stores).out
              /\ FirstKeys(systems[k], log[k].components) = MatchingIds(systems[k], entities)

C7_Witness ==
    /\ ran
    /\ Len(log) = 3
    /\ systems[1] # systems[2] /\ systems[2] # systems[3]
    /\ \E k \in DOMAIN log : log[k].components = <<>>
    /\ \E k \in DOMAIN log : Len(log[k].components) >= 1

\* C8: for every query type and entity, one filter call never yields two
\* references into the same store for that entity of which one is mutable.
Aliased(bs) ==
    \E i \in DOMAIN bs, j \in DOMAIN bs :
        /\ i < j
        /\ bs[i].store = bs[j].store
        /\ bs[i].key = bs[j].key
        /\ (bs[i].mut \/ bs[j].mut)
C8_NoAliasedBorrow ==
    \A q \in Queries, e \in Live :
        LET r == filter(q, e, Stores).res
            ra == filter_arr(q, e)
        IN  /\ r # None => ~Aliased(BorrowsOf(q, Unwrap(r)))
            /\ ra # None => ~Aliased(BorrowsOf(q, Unwrap(ra)))

\* C9: a join that names one component type more than once is rejected when it
\* is registered: no such system is ever in the list, and none is ever called.
RECURSIVE LeafCount(_)
LeafCount(q) == IF q.kind = "ref" THEN 1 ELSE LeafCount(q.a) + LeafCount(q.b)
WellFormed(q) == LeafCount(q) = Cardinality(TypesOf(q))
C9_IllFormedRejected ==
    /\ \A k \in DOMAIN systems : WellFormed(systems[k])
    /\ \A k \in DOMAIN log : WellFormed(systems[log[k].system])

\* C10: no two calls of Entity::new return the same id, and an entity fresh
\* from Entity::new finds no component stored under its id.
C10_IdNeverReissued ==
    /\ \A e1 \in DOMAIN id, e2 \in DOMAIN id :
          e1 # e2 => id[e1] # id[e2] /\ id_arr[e1] # id_arr[e2]
    /\ \A e \in Live, ty \in Types :
          (\A t \in Types : ~Has(e, t)) => filter_arr(Ref(ty, FALSE), e) = None

\* C11: removing an id from a store that holds no value for it leaves the store
\* unchanged and does not fail, in every state of the store, the state before
\* its first use included; removing twice is the same as removing once.
C11_RemoveAbsentIsNoOp ==
    /\ "hash" \notin panicked
    /\ \A ty \in Types, k \in Uuids :
          ~DropPanics(Stores, ty) =>
              /\ HashMapGet(Stores[ty].map, k) = None => drop(Stores, ty, k) = Stores
              /\ drop(drop(Stores, ty, k), ty, k) = drop(Stores, ty, k)

\* C12: in the array program an attach to an entity whose id is at or beyond
\* the capacity panics, writes no slot and leaves every entry of every array
\* store as it was; an attach within the capacity does not panic and its value
\* is in the entity's slot afterwards (nothing is lost silently).
C12_OutOfRangeInsertFails ==
    [][\A e \in DOMAIN id, ty \in Types :
          (nattach' = nattach + 1 /\ attached'[e][ty] # None
             /\ components'[e] # components[e]
             /\ Len(components'[e]) > 0
             /\ components'[e][Len(components'[e])].ty = ty) =>
              IF InRange(id_arr[e])
              THEN /\ panicked' = panicked
                   /\ Slot(ArrStore(ty), id_arr[e][2])' = attached'[e][ty]
                   /\ \A t \in Types, n \in 0..(Capacity - 1) :
                         (t # ty \/ n # id_arr[e][2]) =>
                             Slot(ArrStore(t), n)' = Slot(ArrStore(t), n)
              ELSE /\ "array" \in panicked'
                   /\ COLLIDES_ARR' = COLLIDES_ARR
                   /\ MOVE_TOS_ARR' = MOVE_TOS_ARR]_vars

\* An attach beyond the capacity has panicked while an earlier entity's slot is held.
C12_Witness ==
    /\ "array" \in panicked
    /\ \E e \in DOMAIN id : ~InRange(id_arr[e]) /\ \E ty \in Types : Has(e, ty)
    /\ \E e \in DOMAIN id, ty \in Types :
          InRange(id_arr[e]) /\ Has(e, ty) /\ Slot(ArrStore(ty), id_arr[e][2]) # None

\* The payloads a query result points at, in the shape of the query.
RECURSIVE Payloads(_, _)
Payloads(q, r) ==
    IF q.kind = "ref" THEN r.val ELSE <<Payloads(q.a, r[1]), Payloads(q.b, r[2])>>
PayloadSeq(q, out) == [i \in 1..Len(out) |-> Payloads(q, out[i])]
HashArrayAgree ==
    \A q \in Queries :
        PayloadSeq(q, get_components(q, entities, Stores).out)
            = PayloadSeq(q, get_components_arr(q, entities))
HashListAgree ==
    \A q \in ListQueries :
        PayloadSeq(q, get_components(q, entities, Stores).out)
            = PayloadSeq(q, get_components_list(q, entities))

\* C13: on the same sequence of creations, attaches and destroys the hash-map,
\* array and list programs return the same payloads, in the same order, for
\* every single-type and joined query (ids within the array's capacity).
C13_BackendsAgree == HashArrayAgree /\ HashListAgree

\* C14: each hash-map store starts uninitialized and empty, is created empty
\* by whichever of insert, filter (shared) or filter (mutable) touches it
\* first, stays initialized from then on, and no insert or filter discards or
\* changes an entry the store holds, other than the entry an insert overwrites.
C14_LazyInitOnce ==
    /\ [](\A ty \in Types : ~Stores[ty].init => Stores[ty].map = EmptyMap)
    /\ [][\A ty \in Types :
            LET old == Stores[ty]
                new == Stores[ty]'
            IN  /\ old.init => new.init
                /\ (~old.init /\ new.init) =>
                      IF nattach' = nattach THEN new.map = EmptyMap
                      ELSE Cardinality(DOMAIN new.map) = 1
                /\ (entities' = entities /\ nattach' = nattach) => new.map = old.map
                /\ (entities' = entities /\ nattach' = nattach + 1) =>
                      /\ DOMAIN old.map \subseteq DOMAIN new.map
                      /\ Cardinality(DOMAIN new.map \ DOMAIN old.map) <= 1
                      /\ Cardinality({k \in DOMAIN old.map : new.map[k] # old.map[k]}) <= 1]_vars

\* The Collide store holds an entry; the MoveTo store was created by a filter
\* (no MoveTo was ever attached) and is empty.
C14_Witness ==
    /\ COLLIDES.init /\ COLLIDES.map # EmptyMap
    /\ MOVE_TOS.init /\ MOVE_TOS.map = EmptyMap
    /\ \A e \in DOMAIN id : ~Has(e, "MoveTo")
    /\ \E e \in Live : Has(e, "Collide")

\* The schedule of main: a system for Collide, one for MoveTo and one for
\* (Collide, MoveTo), over the population [P, W], and a tick has just run.
TickedOnPW ==
    /\ systems = <<Ref("Collide", FALSE), Ref("MoveTo", FALSE),
                   Pair(Ref("Collide", FALSE), Ref("MoveTo", FALSE))>>
    /\ entities = <<1, 2>>
    /\ ran

\* C15: with systems for Collide, MoveTo and (Collide, MoveTo) and the
\* population [P, W], after a tick and the destruction of P the next tick over
\* the remaining population hands the Collide-only system exactly one element
\* fewer than the first tick did: W's element alone.
C15_SecondTickOneSmaller ==
    [][(TickedOnPW /\ entities' = <<2>>) =>
          LET first == log[1].components
              second == (run_from(1, entities, Stores, <<>>).calls[1].components)'
          IN  /\ Len(second) = Len(first) - 1
              /\ second = <<first[2]>>]_vars

\* The second tick has run: P is destroyed and the Collide-only system got one element.
C15_Witness ==
    /\ systems = <<Ref("Collide", FALSE), Ref("MoveTo", FALSE),
                   Pair(Ref("Collide", FALSE), Ref("MoveTo", FALSE))>>
    /\ entities = <<2>>
    /\ Dead = {1}
    /\ ran
    /\ Len(log[1].components) = 1

\* C16: a joined filter evaluates its sub-queries left to right and stops at
\* the first None: when T0's filter returns None the call returns None and
\* leaves the stores as T0's filter alone leaves them, so a not yet
\* initialized store of TB is still uninitialized; when T0's filter returns
\* Some, TB's filter runs next, on the stores T0's filter left.
C16_ShortCircuit ==
    \A q \in Pairs \cup Nested, e \in Live :
        LET a == filter(q.a, e, Stores)
            r == filter(q, e, Stores)
        IN  IF a.res = None
            THEN /\ r = [res |-> None, st |-> a.st]
                 /\ \A ty \in TypesOf(q.b) \ TypesOf(q.a) : r.st[ty].init = Stores[ty].init
            ELSE r.st = filter(q.b, e, a.st).st

\* A filter has created the MoveTo store (no MoveTo was ever attached) and the
\* Collide store is untouched: on a live entity the join (MoveTo, Collide)
\* returns None and the Collide store stays uninitialized.
C16_Witness ==
    /\ ~COLLIDES.init
    /\ MOVE_TOS.init
    /\ \A e \in DOMAIN id : ~Has(e, "MoveTo")
    /\ \E e \in Live :
          LET r == filter(Pair(Ref("MoveTo", FALSE), Ref("Collide", FALSE)), e, Stores)
          IN  /\ r.res = None
              /\ r.st.MoveTo.init
              /\ ~r.st.Collide.init

\* What a read may do to the stores st0 on its way to st1: no entry added,
\* removed or changed; a store at most goes from uninitialized to empty.
OnlyInitializes(st0, st1) ==
    \A ty \in Types :
        /\ st1[ty].map = st0[ty].map
        /\ st0[ty].init => st1[ty].init

\* C17: no call of filter, of get_components or of App::run adds or removes
\* an entry of a store, changes the population or changes the systems list;
\* at most it initializes a not yet used store as empty.
C17_ReadsKeepMembership ==
    /\ [](\A q \in Queries :
            /\ OnlyInitializes(Stores, get_components(q, entities, Stores).st)
            /\ \A e \in Live : OnlyInitializes(Stores, filter(q, e, Stores).st))
    /\ [][ran' =>
            /\ OnlyInitializes(Stores, Stores')
            /\ UNCHANGED <<entities, systems, id, drop_functions, id_arr, ID,
                           COLLIDES_ARR, MOVE_TOS_ARR, components>>]_vars

\* A tick has run a system over a live entity and created the Collide store,
\* which holds nothing because no Collide was ever attached.
C17_Witness ==
    /\ ran
    /\ Len(log) >= 1
    /\ Live # {}
    /\ COLLIDES.init
    /\ COLLIDES.map = EmptyMap
    /\ \A e \in DOMAIN id : ~Has(e, "Collide")

\* A step that attaches a component to an entity or destroys an entity.
AttachOrDestroyStep ==
    \/ nattach' = nattach + 1
    \/ Live' \subseteq Live /\ Live' # Live

C19_DestroyNeverFails ==
    /\ "hash" \notin panicked
    /\ \A e \in Live :
          /\ \A n \in DOMAIN drop_functions[e] : ~DropPanics(Stores, drop_functions[e][n])
          /\ ~run_drop_functions(drop_functions[e], id[e], Stores).panic

\* The only entity ever made had Collide attached at least twice and nothing
\* else, and has been destroyed; the store is empty again.
C19_Witness ==
    /\ Len(id) = 1
    /\ Dead = {1}
    /\ nattach >= 2
    /\ ~Has(1, "MoveTo")
    /\ COLLIDES.init
    /\ COLLIDES.map = EmptyMap
    /\ drop_functions[1] = <<>>

====
